---------------------------- MODULE Spec2Model ----------------------------
(***************************************************************************)
(* Model of src/components/BookingWizard.tsx: the booking record, the two  *)
(* estimator groups, the cost calculations and the availability fetch.     *)
(*                                                                         *)
(* Units.  Hours are kept in thousandths of an hour (3 h = 3000), so that  *)
(* the estimator weights 0.75, 0.5, 0.3, 0.25, 0.67, 0.133, 0.42 are the   *)
(* integers 750, 500, 300, 250, 670, 133, 420.  Money is kept in units of  *)
(* 1/10000 dollar, so that rate * hours, the 13 % tax and the 30 % / 70 %  *)
(* split are exact integers for whole-dollar rates and half-hour steps.    *)
(***************************************************************************)
EXTENDS Integers, Sequences, FiniteSets, Bags

VARIABLES
    booking,          \* useState<BookingState>          (line 35)
    homeEstimator,    \* useState home counters          (lines 51-56)
    officeEstimator,  \* useState office counters        (lines 58-63)
    availableSlots,   \* useState<TimeSlot[]>            (line 41)
    isLoadingSlots,   \* useState(false)                 (line 42)
    inflight,         \* bag of the pending getRealAvailability calls
    currentUser,      \* the component's prop            (lines 30-34)
    calcIn,           \* inputs handed to the cost calculations in SpecCalc
    calcOut           \* their result

vars == <<booking, homeEstimator, officeEstimator, availableSlots,
          isLoadingSlots, inflight, currentUser, calcIn, calcOut>>

---------------------------------------------------------------------------
(* Bounds of the model *)

\* how far (sum of |value - default| over all eight counters) a session
\* of the estimator specification moves the counters
MaxPresses == 3

\* the same distance in the wizard specification
MaxWizardPresses == 1

\* availability fetches that may be pending at once
MaxInFlight == 2

\* largest whole-dollar hourly rate fed to the cost calculations
MaxRate == 60

\* largest number of half hours fed to the cost calculations
MaxHalfHours == 24

---------------------------------------------------------------------------
(* Values *)

NULL == "null"

Max(a, b) == IF a >= b THEN a ELSE b

Abs(a) == IF a >= 0 THEN a ELSE 0 - a

\* Math.ceil(a / b) for a >= 0, b > 0
CeilDiv(a, b) == (a + b - 1) \div b

Range(s) == {s[i] : i \in 1..Len(s)}

\* the "no slot" value of booking.timeSlot, shaped like a TimeSlot
NoSlot == [date |-> NULL, start |-> 0, duration |-> 0]

Dates == {"d1", "d2"}

\* the service catalog: the home service of the pricing scenario (50 $/h)
\* and the office service tested at line 83
SERVICE_OPTIONS ==
    { [id |-> "standard", hourlyRate |-> 50],
      [id |-> "office",   hourlyRate |-> 60] }

ServiceIds == {s.id : s \in SERVICE_OPTIONS}

EmptyDetails ==
    [firstName |-> "", lastName |-> "", email |-> "", phone |-> "",
     address |-> "", notes |-> ""]

INITIAL_STATE ==
    [step          |-> 1,
     service       |-> NULL,
     hours         |-> 3000,
     date          |-> NULL,
     timeSlot      |-> NoSlot,
     clientDetails |-> EmptyDetails,
     paymentStatus |-> "pending"]

HomeDefaults == [bedrooms |-> 2, bathrooms |-> 1, kitchen |-> 1, living |-> 1]

OfficeDefaults == [rooms |-> 6, cafeteria |-> 0, desks |-> 20, washrooms |-> 2]

HomeFields == {"bedrooms", "bathrooms", "kitchen", "living"}

OfficeFields == {"rooms", "cafeteria", "desks", "washrooms"}

\* the positions of the hours slider: min 2, max 10, step 0.5
SliderValues == {2000 + 500 * k : k \in 0..16}

---------------------------------------------------------------------------
(* Derived values of a render *)

\* SERVICE_OPTIONS.find(s => s.id === booking.service): found or not
HasService(b) == b.service \in ServiceIds

\* currentService.hourlyRate (used only when a service was found)
HourlyRate(b) == (CHOOSE s \in SERVICE_OPTIONS : s.id = b.service).hourlyRate

IsOffice(b) == HasService(b) /\ b.service = "office"

isOfficeService == IsOffice(booking)

\* Math.floor in place of the Math.ceil of line 99
DurationFloor(hours) == hours \div 1000

\* Math.ceil(booking.hours), in whole hours
Duration(hours) == CeilDiv(hours, 1000)

\* the tax rate, in percent
HST_RATE == 13

\* a slip: the deposit taken from the subtotal, before tax
CostCalculationsDepositBeforeTax(hasService, hourlyRate, hours) ==
    LET subtotal        == IF hasService THEN hourlyRate * hours * 10 ELSE 0
        hstAmount       == (subtotal * HST_RATE) \div 100
        totalCost       == subtotal + hstAmount
        depositAmount   == (subtotal * 30) \div 100
        remainingAmount == (totalCost * 70) \div 100
    IN  [subtotal        |-> subtotal,
         hstAmount       |-> hstAmount,
         totalCost       |-> totalCost,
         depositAmount   |-> depositAmount,
         remainingAmount |-> remainingAmount]

\* lines 86-90; hours in thousandths, the figures in 1/10000 dollar
CostCalculations(hasService, hourlyRate, hours) ==
    LET subtotal        == IF hasService THEN hourlyRate * hours * 10 ELSE 0
        hstAmount       == (subtotal * HST_RATE) \div 100
        totalCost       == subtotal + hstAmount
        depositAmount   == (totalCost * 30) \div 100
        remainingAmount == (totalCost * 70) \div 100
    IN  [subtotal        |-> subtotal,
         hstAmount       |-> hstAmount,
         totalCost       |-> totalCost,
         depositAmount   |-> depositAmount,
         remainingAmount |-> remainingAmount]

\* the figures of the current render
Costs(b) == CostCalculations(HasService(b),
                             IF HasService(b) THEN HourlyRate(b) ELSE 0,
                             b.hours)

\* a slip: cents cut off instead of rounded
ToFixed2Truncated(x) == x \div 100

\* x.toFixed(2): an amount in 1/10000 dollar to cents, halves rounded up
ToFixed2(x) == (x + 50) \div 100

---------------------------------------------------------------------------
(* Estimators *)

\* a slip: rounding up to whole hours instead of half hours
HomeHoursWholeHours(newState) ==
    LET hours   == newState.kitchen * 750 + newState.bathrooms * 500
                   + newState.bedrooms * 300 + newState.living * 250
        rounded == CeilDiv(hours, 1000) * 1000
    IN  Max(2000, rounded)

\* lines 121-128: the home formula on the new counters
HomeHours(newState) ==
    LET hours   == newState.kitchen * 750 + newState.bathrooms * 500
                   + newState.bedrooms * 300 + newState.living * 250
        rounded == CeilDiv(hours * 2, 1000) * 500
    IN  Max(2000, rounded)

\* a slip: the base time of line 146 left out
OfficeHoursNoBase(newState) ==
    LET hours   == newState.rooms * 300 + newState.cafeteria * 670
                   + newState.desks * 133 + newState.washrooms * 420
        rounded == CeilDiv(hours * 2, 1000) * 500
    IN  Max(3000, rounded)

\* a slip: Math.floor in place of Math.ceil at line 148
OfficeHoursRoundedDown(newState) ==
    LET hours   == newState.rooms * 300 + newState.cafeteria * 670
                   + newState.desks * 133 + newState.washrooms * 420 + 750
        rounded == ((hours * 2) \div 1000) * 500
    IN  Max(3000, rounded)

\* lines 141-149: the office formula on the new counters
OfficeHours(newState) ==
    LET hours   == newState.rooms * 300 + newState.cafeteria * 670
                   + newState.desks * 133 + newState.washrooms * 420 + 750
        rounded == CeilDiv(hours * 2, 1000) * 500
    IN  Max(3000, rounded)

---------------------------------------------------------------------------
(* The availability backend and the fetch effect *)

\* getRealAvailability(date, duration) when it succeeds: the open slots of
\* that date for that duration
getRealAvailability(date, duration) ==
    << [date |-> date, start |-> 9,  duration |-> duration],
       [date |-> date, start |-> 13, duration |-> duration] >>

\* the effect of lines 93-110 runs when booking.date or booking.hours changed
DepsChanged(b, nb) == nb.date # b.date \/ nb.hours # b.hours

\* ... and starts a fetch when both are set (line 96)
StartsFetch(b, nb) == DepsChanged(b, nb) /\ nb.date # NULL /\ nb.hours # 0

\* lines 94-100, up to the await, after booking went from b to nb
FetchEffect(b, nb) ==
    IF DepsChanged(b, nb)
    THEN /\ availableSlots' = << >>
         /\ IF StartsFetch(b, nb)
            THEN /\ BagCardinality(inflight) < MaxInFlight
                 /\ isLoadingSlots' = TRUE
                 /\ inflight' = inflight (+) SetToBag(
                                  {[date |-> nb.date, duration |-> Duration(nb.hours)]})
            ELSE UNCHANGED <<isLoadingSlots, inflight>>
    ELSE UNCHANGED <<availableSlots, isLoadingSlots, inflight>>

\* setBooking(nb) and the effects the re-render runs
SetBooking(nb) ==
    /\ booking' = nb
    /\ FetchEffect(booking, nb)

---------------------------------------------------------------------------
(* Construction *)

NoUser == [loggedIn |-> FALSE]

\* a logged-in user; the profile has no phone, so `|| ''` applies
SampleUser ==
    [loggedIn |-> TRUE, firstName |-> "Ada", lastName |-> "Byron",
     email |-> "ada@example.org", phone |-> "", address |-> "1 Main St"]

Users == {NoUser, SampleUser}
\* lines 66-80 spreading INITIAL_STATE in place of prev
AutoFillFromInitial(prev, user) ==
    IF user.loggedIn
    THEN [INITIAL_STATE EXCEPT !.clientDetails =
            [@ EXCEPT !.firstName = user.firstName,
                      !.lastName  = user.lastName,
                      !.email     = user.email,
                      !.phone     = user.phone,
                      !.address   = user.address]]
    ELSE prev

\* lines 66-80: the auto-fill effect on mount
AutoFill(prev, user) ==
    IF user.loggedIn
    THEN [prev EXCEPT !.clientDetails =
            [@ EXCEPT !.firstName = user.firstName,
                      !.lastName  = user.lastName,
                      !.email     = user.email,
                      !.phone     = user.phone,
                      !.address   = user.address]]
    ELSE prev

NoCalc == [hasService |-> FALSE, hourlyRate |-> 0, hours |-> 0]

\* the state after the first render and its effects
Init ==
    /\ currentUser \in Users
    /\ booking = AutoFill(INITIAL_STATE, currentUser)
    /\ homeEstimator = HomeDefaults
    /\ officeEstimator = OfficeDefaults
    /\ availableSlots = << >>
    /\ isLoadingSlots = FALSE
    /\ inflight = EmptyBag
    /\ calcIn = NoCalc
    /\ calcOut = << >>

---------------------------------------------------------------------------
(* Handlers *)

\* line 112
HandleNext ==
    /\ SetBooking([booking EXCEPT !.step = @ + 1])
    /\ UNCHANGED <<homeEstimator, officeEstimator, currentUser, calcIn, calcOut>>
\* line 113 with the chosen slot dropped on the way back
HandleBackClearsSlot ==
    /\ SetBooking([booking EXCEPT !.step = @ - 1, !.timeSlot = NoSlot])
    /\ UNCHANGED <<homeEstimator, officeEstimator, currentUser, calcIn, calcOut>>

\* line 113 stepping back by two
HandleBackTwoSteps ==
    /\ SetBooking([booking EXCEPT !.step = @ - 2])
    /\ UNCHANGED <<homeEstimator, officeEstimator, currentUser, calcIn, calcOut>>

\* line 113
HandleBack ==
    /\ SetBooking([booking EXCEPT !.step = @ - 1])
    /\ UNCHANGED <<homeEstimator, officeEstimator, currentUser, calcIn, calcOut>>
\* lines 116-133 with the chosen slot dropped along with the old hours
HandleHomeChangeClearsSlot(field, delta) ==
    LET nextValue  == Max(0, homeEstimator[field] + delta)
        newState   == [homeEstimator EXCEPT ![field] = nextValue]
        finalHours == HomeHours(newState)
    IN  /\ homeEstimator' = newState
        /\ SetBooking([booking EXCEPT !.hours = finalHours,
                                      !.timeSlot = NoSlot])
        /\ UNCHANGED <<officeEstimator, currentUser, calcIn, calcOut>>

\* lines 116-133 with the sum of line 121 started from booking.hours
HandleHomeChangeAccumulating(field, delta) ==
    LET nextValue  == Max(0, homeEstimator[field] + delta)
        newState   == [homeEstimator EXCEPT ![field] = nextValue]
        hours      == booking.hours + newState.kitchen * 750
                      + newState.bathrooms * 500 + newState.bedrooms * 300
                      + newState.living * 250
        finalHours == Max(2000, CeilDiv(hours * 2, 1000) * 500)
    IN  /\ homeEstimator' = newState
        /\ SetBooking([booking EXCEPT !.hours = finalHours])
        /\ UNCHANGED <<officeEstimator, currentUser, calcIn, calcOut>>

\* lines 116-133 without the Math.max(0, ...) of line 118
HandleHomeChangeNoClamp(field, delta) ==
    LET nextValue  == homeEstimator[field] + delta
        newState   == [homeEstimator EXCEPT ![field] = nextValue]
        finalHours == HomeHours(newState)
    IN  /\ homeEstimator' = newState
        /\ SetBooking([booking EXCEPT !.hours = finalHours])
        /\ UNCHANGED <<officeEstimator, currentUser, calcIn, calcOut>>

\* lines 116-133
HandleHomeChange(field, delta) ==
    LET nextValue  == Max(0, homeEstimator[field] + delta)
        newState   == [homeEstimator EXCEPT ![field] = nextValue]
        finalHours == HomeHours(newState)
    IN  /\ homeEstimator' = newState
        /\ SetBooking([booking EXCEPT !.hours = finalHours])
        /\ UNCHANGED <<officeEstimator, currentUser, calcIn, calcOut>>

\* lines 136-154
HandleOfficeChange(field, delta) ==
    LET nextValue  == Max(0, officeEstimator[field] + delta)
        newState   == [officeEstimator EXCEPT ![field] = nextValue]
        finalHours == OfficeHours(newState)
    IN  /\ officeEstimator' = newState
        /\ SetBooking([booking EXCEPT !.hours = finalHours])
        /\ UNCHANGED <<homeEstimator, currentUser, calcIn, calcOut>>
\* line 199 with parseInt in place of parseFloat
SliderChangeParseInt(value) ==
    /\ SetBooking([booking EXCEPT !.hours = (value \div 1000) * 1000])
    /\ UNCHANGED <<homeEstimator, officeEstimator, currentUser, calcIn, calcOut>>

\* line 199: the slider's onChange
SliderChange(value) ==
    /\ SetBooking([booking EXCEPT !.hours = value])
    /\ UNCHANGED <<homeEstimator, officeEstimator, currentUser, calcIn, calcOut>>

\* lines 100-101 and 104-106: a pending fetch resolves
AvailabilityResolved(request) ==
    /\ BagIn(request, inflight)
    /\ availableSlots' = getRealAvailability(request.date, request.duration)
    /\ isLoadingSlots' = FALSE
    /\ inflight' = inflight (-) SetToBag({request})
    /\ UNCHANGED <<booking, homeEstimator, officeEstimator, currentUser,
                   calcIn, calcOut>>
\* lines 102-106 with setIsLoadingSlots(false) in the try block only
AvailabilityRejectedKeepsLoading(request) ==
    /\ BagIn(request, inflight)
    /\ inflight' = inflight (-) SetToBag({request})
    /\ UNCHANGED <<booking, homeEstimator, officeEstimator, availableSlots,
                   isLoadingSlots, currentUser, calcIn, calcOut>>

\* lines 102-106: a pending fetch rejects; the error is logged
AvailabilityRejected(request) ==
    /\ BagIn(request, inflight)
    /\ isLoadingSlots' = FALSE
    /\ inflight' = inflight (-) SetToBag({request})
    /\ UNCHANGED <<booking, homeEstimator, officeEstimator, availableSlots,
                   currentUser, calcIn, calcOut>>

\* lines 66-80 run again when the currentUser prop changes (line 80)
CurrentUserChanges ==
    \E user \in Users \ {currentUser} :
        /\ currentUser' = user
        /\ SetBooking(AutoFill(booking, user))
        /\ UNCHANGED <<homeEstimator, officeEstimator, calcIn, calcOut>>

---------------------------------------------------------------------------
(* Handlers of the steps whose render functions are not in the file *)

\* choosing a service card; entering the office category recomputes hours
\* from the office formula
SelectService(id) ==
    /\ SetBooking([booking EXCEPT
            !.service = id,
            !.hours   = IF ~IsOffice(booking) /\ id = "office"
                        THEN OfficeHours(officeEstimator) ELSE @])
    /\ UNCHANGED <<homeEstimator, officeEstimator, currentUser, calcIn, calcOut>>

\* choosing a date; a slot chosen for the previous date is dropped
SelectDate(d) ==
    /\ SetBooking([booking EXCEPT !.date = d,
                                  !.timeSlot = IF d = booking.date THEN @ ELSE NoSlot])
    /\ UNCHANGED <<homeEstimator, officeEstimator, currentUser, calcIn, calcOut>>

\* choosing one of the listed slots
SelectSlot(slot) ==
    /\ slot \in Range(availableSlots)
    /\ SetBooking([booking EXCEPT !.timeSlot = slot])
    /\ UNCHANGED <<homeEstimator, officeEstimator, currentUser, calcIn, calcOut>>

\* typing the contact details
EnterClientDetails ==
    /\ SetBooking([booking EXCEPT !.clientDetails =
            [@ EXCEPT !.firstName = "Ada", !.lastName = "Byron",
                      !.email = "ada@example.org", !.phone = "4165550100"]])
    /\ UNCHANGED <<homeEstimator, officeEstimator, currentUser, calcIn, calcOut>>

\* processPayment succeeds: paid, and the wizard moves to the success step
PaymentSucceeds ==
    /\ SetBooking([booking EXCEPT !.paymentStatus = "paid", !.step = @ + 1])
    /\ UNCHANGED <<homeEstimator, officeEstimator, currentUser, calcIn, calcOut>>

\* processPayment fails: the wizard stays on the payment step
PaymentFails ==
    /\ SetBooking([booking EXCEPT !.paymentStatus = "failed"])
    /\ UNCHANGED <<homeEstimator, officeEstimator, currentUser, calcIn, calcOut>>

\* the per-step guard of the Next button
canProceed ==
    CASE booking.step = 1 -> booking.service # NULL
      [] booking.step = 2 -> IF isOfficeService
                             THEN booking.hours >= 3000
                             ELSE booking.hours >= 2000 /\ booking.hours <= 10000
      [] booking.step = 3 -> /\ booking.date # NULL
                             /\ booking.timeSlot # NoSlot
                             /\ booking.timeSlot \in Range(availableSlots)
      [] booking.step = 4 -> /\ booking.clientDetails.firstName # ""
                             /\ booking.clientDetails.lastName # ""
                             /\ booking.clientDetails.email # ""
                             /\ booking.clientDetails.phone # ""
      [] OTHER -> FALSE

---------------------------------------------------------------------------
(* The controls each step renders *)

\* presses the counters are away from their defaults
PressDistance ==
    LET H(f) == Abs(homeEstimator[f] - HomeDefaults[f])
        O(f) == Abs(officeEstimator[f] - OfficeDefaults[f])
    IN  H("bedrooms") + H("bathrooms") + H("kitchen") + H("living")
        + O("rooms") + O("cafeteria") + O("desks") + O("washrooms")

\* step 1: the service cards
ServiceStep ==
    /\ booking.step = 1
    /\ \E id \in ServiceIds : SelectService(id)

\* the Next button, enabled by canProceed
NextClick ==
    /\ canProceed
    /\ HandleNext

\* the Back button, absent on the first step and on the success step
BackClick ==
    /\ booking.step > 1
    /\ booking.step < 6
    /\ HandleBack
\* the home group rendered beside the office group, whatever the service
HomeCountersAlwaysRendered(fields, maxPresses) ==
    /\ booking.step = 2
    /\ \E field \in fields, delta \in {-1, 1} :
          /\ delta = -1 => homeEstimator[field] # 0
          /\ HandleHomeChange(field, delta)
          /\ PressDistance' <= maxPresses

\* lines 232-237 with the buttons of lines 164 and 168: the home group is
\* rendered when the service is not the office one, and the minus button is
\* disabled at 0
HomeCounters(fields, maxPresses) ==
    /\ booking.step = 2
    /\ ~isOfficeService
    /\ \E field \in fields, delta \in {-1, 1} :
          /\ delta = -1 => homeEstimator[field] # 0
          /\ HandleHomeChange(field, delta)
          /\ PressDistance' <= maxPresses

\* lines 225-230 with the buttons of lines 164 and 168
OfficeCounters(fields, maxPresses) ==
    /\ booking.step = 2
    /\ isOfficeService
    /\ \E field \in fields, delta \in {-1, 1} :
          /\ delta = -1 => officeEstimator[field] # 0
          /\ HandleOfficeChange(field, delta)
          /\ PressDistance' <= maxPresses

\* lines 193-201: the slider of the duration step
Slider(values) ==
    /\ booking.step = 2
    /\ \E value \in values : SliderChange(value)

\* step 3: the date picker
DateStep ==
    /\ booking.step = 3
    /\ \E d \in Dates : SelectDate(d)

\* step 3: the slot buttons
SlotStep ==
    /\ booking.step = 3
    /\ \E slot \in Range(availableSlots) : SelectSlot(slot)

\* step 4: the contact form
DetailsStep ==
    /\ booking.step = 4
    /\ EnterClientDetails

\* step 5: the payment succeeds
PaidStep ==
    /\ booking.step = 5
    /\ PaymentSucceeds

\* step 5: the payment fails
DeclinedStep ==
    /\ booking.step = 5
    /\ PaymentFails

\* a response of the availability backend arrives, in any order
SlotsArrive == \E request \in BagToSet(inflight) : AvailabilityResolved(request)

SlotsFail == \E request \in BagToSet(inflight) : AvailabilityRejected(request)

---------------------------------------------------------------------------
(* Specifications *)

\* slider positions tried in the wizard specification, where the counters
\* pressed are one of each group
WizardSliderValues == {2000, 2500}

\* the whole wizard
Next ==
    \/ ServiceStep
    \/ NextClick
    \/ BackClick
    \/ HomeCounters({"kitchen"}, MaxWizardPresses)
    \/ OfficeCounters({"cafeteria"}, MaxWizardPresses)
    \/ Slider(WizardSliderValues)
    \/ DateStep
    \/ SlotStep
    \/ DetailsStep
    \/ PaidStep
    \/ DeclinedStep
    \/ SlotsArrive
    \/ SlotsFail

Spec == Init /\ [][Next]_vars

\* the service and duration steps, every slider position
EstimatorNext ==
    \/ ServiceStep
    \/ NextClick
    \/ BackClick
    \/ HomeCounters(HomeFields, MaxPresses)
    \/ OfficeCounters(OfficeFields, MaxPresses)
    \/ Slider(SliderValues)

SpecEstimator == Init /\ [][EstimatorNext]_vars

\* the cost calculations as a function of (service found, rate, hours)
CalcInit ==
    /\ currentUser = NoUser
    /\ booking = INITIAL_STATE
    /\ homeEstimator = HomeDefaults
    /\ officeEstimator = OfficeDefaults
    /\ availableSlots = << >>
    /\ isLoadingSlots = FALSE
    /\ inflight = EmptyBag
    /\ calcIn \in [hasService : BOOLEAN, hourlyRate : 0..MaxRate,
                   hours : {500 * k : k \in 0..MaxHalfHours}]
    /\ calcOut = << >>

Calc ==
    /\ calcOut = << >>
    /\ calcOut' = << CostCalculations(calcIn.hasService, calcIn.hourlyRate,
                                      calcIn.hours) >>
    /\ UNCHANGED <<booking, homeEstimator, officeEstimator, availableSlots,
                   isLoadingSlots, inflight, currentUser, calcIn>>

SpecCalc == CalcInit /\ [][Calc]_vars

\* the handlers called with either delta on any field, as their signature
\* allows (the buttons' disabled state aside)
HomeHandler ==
    /\ booking.step = 2
    /\ ~isOfficeService
    /\ \E field \in HomeFields, delta \in {-1, 1} :
          /\ HandleHomeChange(field, delta)
          /\ PressDistance' <= MaxPresses

OfficeHandler ==
    /\ booking.step = 2
    /\ isOfficeService
    /\ \E field \in OfficeFields, delta \in {-1, 1} :
          /\ HandleOfficeChange(field, delta)
          /\ PressDistance' <= MaxPresses

HandlerNext ==
    \/ ServiceStep
    \/ NextClick
    \/ BackClick
    \/ HomeHandler
    \/ OfficeHandler

SpecHandlers == Init /\ [][HandlerNext]_vars

\* from the service cards to the success step, with the profile prop
\* changing under way; hours stay as the service selection left them
CheckoutNext ==
    \/ ServiceStep
    \/ NextClick
    \/ BackClick
    \/ DateStep
    \/ SlotStep
    \/ DetailsStep
    \/ PaidStep
    \/ DeclinedStep
    \/ SlotsArrive
    \/ SlotsFail
    \/ CurrentUserChanges

SpecCheckout == Init /\ [][CheckoutNext]_vars

\* the slider and the date step: writers of (date, hours), and the
\* responses of the backend
FetchNext ==
    \/ ServiceStep
    \/ NextClick
    \/ BackClick
    \/ Slider(WizardSliderValues)
    \/ DateStep
    \/ SlotsArrive
    \/ SlotsFail

SpecFetch == Init /\ [][FetchNext]_vars

\* the backend answers every call, one way or the other
SpecFetchFair == SpecFetch /\ WF_vars(SlotsArrive \/ SlotsFail)

\* the counters used with a date and a slot already chosen
FrameNext ==
    \/ ServiceStep
    \/ NextClick
    \/ BackClick
    \/ HomeCounters({"kitchen"}, MaxWizardPresses)
    \/ OfficeCounters({"cafeteria"}, MaxWizardPresses)
    \/ DateStep
    \/ SlotStep
    \/ SlotsArrive

SpecFrame == Init /\ [][FrameNext]_vars

---------------------------------------------------------------------------
(* Properties *)

\* the request a fetch for the current (date, hours) would carry
IsCurrent(request) ==
    /\ request.date = booking.date
    /\ request.duration = Duration(booking.hours)

\* the list the backend returns for the current (date, hours)
CurrentList == getRealAvailability(booking.date, Duration(booking.hours))

\* C1: stale availability responses are never applied: once every fetch has
\* resolved, availableSlots is the result for the current (date, hours), or
\* empty if that fetch failed, and never the result of a superseded request.
C1_StaleResponsesDropped ==
    (BagCardinality(inflight) = 0 /\ booking.date # NULL)
        => availableSlots \in {<< >>, CurrentList}

\* C2: booking.hours is a multiple of 0.5, lies in [2, 10] when the current
\* service is not the office service, and is at least 3 when it is.
C2_HoursInRange ==
    /\ booking.hours % 500 = 0
    /\ IF isOfficeService
       THEN booking.hours >= 3000
       ELSE booking.hours >= 2000 /\ booking.hours <= 10000

\* C3: if date or hours changes after a time slot was selected,
\* booking.timeSlot is cleared, so that a chosen slot always belongs to the
\* list of the current (date, hours).
C3_SlotClearedOnChange ==
    [][(booking.timeSlot # NoSlot /\ DepsChanged(booking, booking'))
          => booking'.timeSlot = NoSlot]_vars

\* C4: whenever at least one availability fetch is pending, availableSlots is
\* empty and isLoadingSlots is true.
C4_LoadingWhilePending ==
    BagCardinality(inflight) > 0 => (availableSlots = << >> /\ isLoadingSlots)

\* C5: when the fetch for the current (date, hours) fails, availableSlots is
\* empty afterwards and booking is unchanged; when it succeeds, availableSlots
\* is exactly the returned list.
C5_CurrentFetchOutcome ==
    [][\A request \in BagToSet(inflight) :
          IsCurrent(request) =>
            /\ AvailabilityRejected(request)
                  => (availableSlots' = << >> /\ booking' = booking)
            /\ AvailabilityResolved(request)
                  => (availableSlots' = CurrentList /\ booking' = booking)]_vars

\* max(3, ceil(raw*2)/2) of the office counters, raw in thousandths: the
\* least number of half hours that covers raw
FormulaOfficeHours(c) ==
    LET raw   == 300 * c.rooms + 670 * c.cafeteria + 133 * c.desks
                 + 420 * c.washrooms + 750
        halves == CHOOSE n \in 0..200 : n * 500 >= raw /\ (n - 1) * 500 < raw
    IN  IF halves >= 6 THEN halves * 500 ELSE 3000

\* max(2, ceil(raw*2)/2) of the home counters, raw in thousandths
FormulaHomeHours(c) ==
    LET raw   == 750 * c.kitchen + 500 * c.bathrooms + 300 * c.bedrooms
                 + 250 * c.living
        halves == CHOOSE n \in 0..200 : n * 500 >= raw /\ (n - 1) * 500 < raw
    IN  IF halves >= 4 THEN halves * 500 ELSE 2000

C7_HomeHoursFormula ==
    [][homeEstimator' # homeEstimator
          => /\ booking'.hours = FormulaHomeHours(homeEstimator')
             /\ homeEstimator' = HomeDefaults => booking'.hours = 2500]_vars

\* C7 witness: three presses away from the defaults, raw 3.65 gives 4 hours
C7_Witness ==
    /\ homeEstimator = [bedrooms |-> 3, bathrooms |-> 2, kitchen |-> 2, living |-> 1]
    /\ booking.hours = 4000

\* C8: every change of the office counters writes max(3, ceil(raw*2)/2) of
\* the new counters, the fixed 0.75 included, to booking.hours; the default
\* counters {6,0,20,2} give 6.5.
C8_OfficeHoursFormula ==
    [][officeEstimator' # officeEstimator
          => /\ booking'.hours = FormulaOfficeHours(officeEstimator')
             /\ officeEstimator' = OfficeDefaults => booking'.hours = 6500]_vars

\* C8 witness: one more room and a cafeteria, raw 7.02 gives 7.5 hours
C8_Witness ==
    /\ officeEstimator = [rooms |-> 7, cafeteria |-> 1, desks |-> 20, washrooms |-> 2]
    /\ booking.hours = 7500

\* C9: subtotal = rate*hours, tax = subtotal*0.13, total = subtotal + tax =
\* subtotal*1.13, deposit = total*0.30, remaining = total*0.70 and deposit +
\* remaining = total exactly; with no service all five figures are 0.
C9_CostFigures ==
    calcOut # << >> =>
        LET c == calcOut[1]
        IN  /\ calcIn.hasService
                => c.subtotal * 100 = calcIn.hourlyRate * calcIn.hours * 1000
            /\ ~calcIn.hasService => c.subtotal = 0
            /\ c.hstAmount * 100 = c.subtotal * 13
            /\ c.totalCost = c.subtotal + c.hstAmount
            /\ c.totalCost * 100 = c.subtotal * 113
            /\ c.depositAmount * 100 = c.totalCost * 30
            /\ c.remainingAmount * 100 = c.totalCost * 70
            /\ c.depositAmount + c.remainingAmount = c.totalCost
            /\ ~calcIn.hasService
                => /\ c.hstAmount = 0 /\ c.totalCost = 0
                   /\ c.depositAmount = 0 /\ c.remainingAmount = 0

\* C9 witness: rate 50 and 2.5 hours computed, total 141.25
C9_Witness ==
    /\ calcOut # << >>
    /\ calcIn = [hasService |-> TRUE, hourlyRate |-> 50, hours |-> 2500]
    /\ calcOut[1].totalCost = 1412500

\* the figures of the pricing scenario, in cents
ScenarioFigures(b) ==
    /\ ToFixed2(Costs(b).subtotal) = 12500
    /\ ToFixed2(Costs(b).hstAmount) = 1625
    /\ ToFixed2(Costs(b).totalCost) = 14125
    /\ ToFixed2(Costs(b).depositAmount) = 4238
    /\ ToFixed2(Costs(b).remainingAmount) = 9888

C11_LastWriteWins ==
    [][ /\ \A value \in SliderValues :
              SliderChange(value) =>
                  /\ booking'.hours = value
                  /\ homeEstimator' = homeEstimator
                  /\ officeEstimator' = officeEstimator
        /\ homeEstimator' # homeEstimator =>
              booking'.hours = FormulaHomeHours(homeEstimator')
        /\ officeEstimator' # officeEstimator =>
              booking'.hours = FormulaOfficeHours(officeEstimator')
      ]_vars

\* the slider has written 10 hours over the estimate of changed home
\* counters: no estimator value within reach is that long
C11_Witness ==
    /\ ~isOfficeService
    /\ homeEstimator.kitchen = 2
    /\ officeEstimator = OfficeDefaults
    /\ booking.hours = 10000
    /\ FormulaHomeHours(homeEstimator) = 3000

C13_CountersNonNegative ==
    /\ \A f \in HomeFields : homeEstimator[f] \in Nat
    /\ \A f \in OfficeFields : officeEstimator[f] \in Nat
    /\ [][ /\ \A f \in HomeFields : homeEstimator'[f] \in Nat
           /\ \A f \in OfficeFields : officeEstimator'[f] \in Nat
           /\ \A f \in HomeFields, d \in {-1, 1} :
                 HandleHomeChange(f, d) =>
                     /\ homeEstimator'[f] =
                            IF d = -1 /\ homeEstimator[f] = 0
                            THEN 0 ELSE homeEstimator[f] + d
                     /\ \A g \in HomeFields \ {f} :
                            homeEstimator'[g] = homeEstimator[g]
           /\ \A f \in OfficeFields, d \in {-1, 1} :
                 HandleOfficeChange(f, d) =>
                     /\ officeEstimator'[f] =
                            IF d = -1 /\ officeEstimator[f] = 0
                            THEN 0 ELSE officeEstimator[f] + d
                     /\ \A g \in OfficeFields \ {f} :
                            officeEstimator'[g] = officeEstimator[g]
         ]_vars

\* a home counter brought down to 0 and the hours left by the office
\* service: the clamped -1 is a call that changes the state here
C13_Witness ==
    /\ ~isOfficeService
    /\ booking.step = 2
    /\ homeEstimator.living = 0
    /\ booking.hours # FormulaHomeHours(homeEstimator)

\* the fields of the booking record the prefill has no business with
PrefillFrame(b) ==
    <<b.clientDetails.notes, b.paymentStatus, b.step, b.service, b.hours,
      b.date, b.timeSlot>>

\* C14: the prefill from an authenticated user writes only
\* clientDetails.firstName, lastName, email, phone and address (a field the
\* profile lacks becomes ''); notes, paymentStatus, step, service, hours,
\* date and timeSlot keep their values.  With no current user the whole
\* booking record is left as it was.  This holds for the prefill at mount
\* and for each later run of the effect.
C14_PrefillFrame ==
    /\ IF currentUser.loggedIn
       THEN /\ PrefillFrame(booking) = PrefillFrame(INITIAL_STATE)
            /\ booking.clientDetails.firstName = currentUser.firstName
            /\ booking.clientDetails.phone = currentUser.phone
            /\ DOMAIN booking.clientDetails = DOMAIN EmptyDetails
       ELSE booking = INITIAL_STATE
    /\ [][ currentUser'.loggedIn # currentUser.loggedIn =>
             IF currentUser'.loggedIn
             THEN /\ PrefillFrame(booking') = PrefillFrame(booking)
                  /\ booking'.clientDetails.firstName = currentUser'.firstName
                  /\ booking'.clientDetails.lastName = currentUser'.lastName
                  /\ booking'.clientDetails.email = currentUser'.email
                  /\ booking'.clientDetails.phone = currentUser'.phone
                  /\ booking'.clientDetails.address = currentUser'.address
                  /\ DOMAIN booking' = DOMAIN booking
             ELSE booking' = booking
         ]_vars

\* a user who logged in after a slot was chosen and the form typed: the
\* typed phone has given way to the profile's empty one, the slot is kept
C14_Witness ==
    /\ currentUser.loggedIn
    /\ booking.step = 4
    /\ booking.timeSlot # NoSlot
    /\ booking.clientDetails.firstName = "Ada"
    /\ booking.clientDetails.phone = ""

\* the least whole number of hours that is not below h thousandths
WholeHoursUp(h) == CHOOSE n \in 0..(h \div 1000 + 1) : n * 1000 >= h /\ (n - 1) * 1000 < h

\* C15: an availability fetch is issued exactly when the pair (date, hours)
\* changes and both are set afterwards; its duration argument is the hours
\* value of that moment rounded up to whole hours (2.5 gives 3, 3 gives 3)
\* and its date the date of that moment.  When the pair changes while date
\* is none, no fetch is issued and availableSlots is the empty list.
C15_FetchOnChange ==
    [][ LET issued  == BagCardinality(inflight') > BagCardinality(inflight)
            changed == \/ booking'.date # booking.date
                       \/ booking'.hours # booking.hours
            request == [date |-> booking'.date,
                        duration |-> WholeHoursUp(booking'.hours)]
        IN  /\ issued <=> (changed /\ booking'.date # NULL /\ booking'.hours > 0)
            /\ issued => inflight' = inflight (+) SetToBag({request})
            /\ issued /\ booking'.hours \in {2500, 3000} => request.duration = 3
            /\ changed /\ booking'.date = NULL =>
                  /\ inflight' = inflight
                  /\ availableSlots' = << >>
      ]_vars

\* a fetch for 3 hours is pending while the slider stands at 2.5
C15_Witness ==
    /\ booking.date = "d1"
    /\ booking.hours = 2500
    /\ BagIn([date |-> "d1", duration |-> 3], inflight)
    /\ isLoadingSlots

\* C16: recomputing hours from the same counters gives the same hours.  A
\* handler call whose counters end as they were (a -1 on a counter at 0)
\* writes what the formula gives for those counters, and every handler call
\* writes a value that depends on the resulting counters alone, so a +1
\* followed by a -1 on one field ends on the hours the formula gave for the
\* counters before the pair: nothing accumulates.
C16_RecomputeIdempotent ==
    [][ /\ \A f \in HomeFields, d \in {-1, 1} :
              HandleHomeChange(f, d) =>
                  /\ booking'.hours = FormulaHomeHours(homeEstimator')
                  /\ homeEstimator' = homeEstimator =>
                        booking'.hours = FormulaHomeHours(homeEstimator)
                  /\ booking.hours = FormulaHomeHours(homeEstimator') =>
                        booking'.hours = booking.hours
        /\ \A f \in OfficeFields, d \in {-1, 1} :
              HandleOfficeChange(f, d) =>
                  /\ booking'.hours = FormulaOfficeHours(officeEstimator')
                  /\ officeEstimator' = officeEstimator =>
                        booking'.hours = FormulaOfficeHours(officeEstimator)
                  /\ booking.hours = FormulaOfficeHours(officeEstimator') =>
                        booking'.hours = booking.hours
      ]_vars

\* the home counters are back at their defaults and the hours are the
\* formula's 2.5, not the 3 of the initial record: a change was undone
C16_Witness ==
    /\ ~isOfficeService
    /\ booking.step = 2
    /\ homeEstimator = HomeDefaults
    /\ booking.hours = 2500

\* C17: exactly one estimator group is active at a time: the office
\* counters when the selected service is the office one, the home counters
\* otherwise.  Only the active group's handler can be invoked, so a step
\* never changes the counters of the inactive group, and never those of
\* both groups.
C17_OneActiveGroup ==
    [][ /\ homeEstimator' # homeEstimator => ~IsOffice(booking)
        /\ officeEstimator' # officeEstimator => IsOffice(booking)
        /\ homeEstimator' = homeEstimator \/ officeEstimator' = officeEstimator
        /\ IsOffice(booking) <=> booking.service = "office"
      ]_vars

\* both groups have been used, each under its own service; the home
\* counters now rest while the office service is selected
C17_Witness ==
    /\ isOfficeService
    /\ booking.step = 2
    /\ homeEstimator # HomeDefaults
    /\ officeEstimator # OfficeDefaults

\* C18: given that every issued fetch resolves in the end, by success or by
\* failure, isLoadingSlots does not stay true: whenever it is true it
\* becomes false later, and it is false in every state with no fetch in
\* flight, however many fetches overlapped and in whichever order they came
\* back.
C18_LoadingEnds ==
    /\ [](BagCardinality(inflight) = 0 => ~isLoadingSlots)
    /\ (isLoadingSlots ~> ~isLoadingSlots)

\* two overlapping fetches have come back, the older one last (its list is
\* the one shown), and the flag is down
C18_Witness ==
    /\ BagCardinality(inflight) = 0
    /\ ~isLoadingSlots
    /\ booking.date = "d2"
    /\ availableSlots = getRealAvailability("d1", Duration(booking.hours))

\* C19: a counter change writes the changed counter and booking.hours, and
\* nothing else of the booking record or of the other group: a change of a
\* home counter leaves the office counters as they were and a change of an
\* office counter the home counters, at most one counter differs afterwards,
\* and step, service, date, timeSlot, clientDetails and paymentStatus keep
\* their values.
C19_CounterChangeFrame ==
    [][ LET hoursOnly == booking' = [booking EXCEPT !.hours = booking'.hours]
        IN  /\ homeEstimator' # homeEstimator =>
                  /\ officeEstimator' = officeEstimator
                  /\ hoursOnly
                  /\ Cardinality({f \in HomeFields :
                        homeEstimator'[f] # homeEstimator[f]}) = 1
            /\ officeEstimator' # officeEstimator =>
                  /\ homeEstimator' = homeEstimator
                  /\ hoursOnly
                  /\ Cardinality({f \in OfficeFields :
                        officeEstimator'[f] # officeEstimator[f]}) = 1
      ]_vars

\* back on the duration step with a date and a 3-hour slot chosen, the
\* kitchen counter was lowered: the hours are 2 and the slot is still there
C19_Witness ==
    /\ booking.step = 2
    /\ booking.date # NULL
    /\ booking.timeSlot # NoSlot
    /\ booking.timeSlot.duration = 3
    /\ homeEstimator.kitchen = 0
    /\ booking.hours = 2000

\* C20: next and back change booking.step alone, by exactly +1 and -1, and
\* undo each other: applying the opposite move to the record a move leaves
\* gives back the record it started from.  Every other field of the booking
\* record, the counters and the slot list are untouched.  (The payment's
\* own advance, which also writes paymentStatus, is not a next.)
C20_NextBackInverse ==
    [][ LET moved(d) == booking' = [booking EXCEPT !.step = booking.step + d]
            restOfState == <<homeEstimator, officeEstimator, availableSlots,
                             isLoadingSlots, inflight, currentUser>>
        IN  /\ HandleNext =>
                  /\ moved(1)
                  /\ [booking' EXCEPT !.step = @ - 1] = booking
                  /\ restOfState' = restOfState
            /\ HandleBack =>
                  /\ moved(-1)
                  /\ [booking' EXCEPT !.step = @ + 1] = booking
                  /\ restOfState' = restOfState
            /\ (/\ booking'.step # booking.step
                /\ booking'.paymentStatus = booking.paymentStatus) =>
                  /\ moved(1) \/ moved(-1)
                  /\ restOfState' = restOfState
      ]_vars

\* back on the date step after the details were typed on the next one: the
\* slot chosen before and the details typed after are both still there
C20_Witness ==
    /\ booking.step = 3
    /\ booking.timeSlot # NoSlot
    /\ booking.clientDetails.phone = "4165550100"
    /\ booking.paymentStatus = "pending"

=============================================================================
